---- MODULE Spec2Model ----
(***************************************************************************)
(* Model of sec_connector.client.SECClient: lookup_company, list_filings   *)
(* and download_filing, with the pydantic models of sec_connector.models.  *)
(*                                                                         *)
(* Strings the code operates on character by character (tickers, CIKs,     *)
(* file names, accession numbers) are sequences of one-character strings.  *)
(* An optional value (None | v) is the sequence <<>> or <<v>>.             *)
(***************************************************************************)
EXTENDS Integers, Sequences, FiniteSets, TLC

VARIABLES
    companies,      \* self._companies: ticker key -> [cik, name]
    filings_data,   \* self._filings_data: sequence of raw filing dicts
    lookup_ret,     \* <<>> or <<[ticker, outcome]>>: the last lookup_company call
    list_ret,       \* <<>> or <<[cik, filters, result]>>: the last list_filings call
    dl_ret,         \* <<>> or <<[...]>>: the last download_filing call
    fs_dirs,        \* the directories of the file system (paths)
    fs_files,       \* the files of the file system: path -> content
    ncalls,         \* download_filing calls made so far
    calls           \* the lookup_company and list_filings calls of a call
                    \* sequence, in order: [op, args, outcome]

vars ==
    <<companies, filings_data, lookup_ret, list_ret, dl_ret, fs_dirs, fs_files,
      ncalls, calls>>

----------------------------------------------------------------------------
(* Bounds of the model                                                      *)

MaxTickerLen == 3
MaxCompanies == 2
MaxFilings == 3
MaxLimit == 3
MaxCalls == 2

----------------------------------------------------------------------------
(* Python str methods                                                       *)

Zeros(k) == [i \in 1..k |-> "0"]

\* str.zfill(width): pads with "0" on the left up to width; a leading sign
\* stays in front of the padding; a string of width or more is unchanged.
ZFill(s, width) ==
    IF Len(s) >= width THEN s
    ELSE IF Len(s) > 0 /\ Head(s) \in {"+", "-"}
         THEN <<Head(s)>> \o Zeros(width - Len(s)) \o Tail(s)
         ELSE Zeros(width - Len(s)) \o s

\* The width of every zfill call of the client.
CikWidth == 10

Whitespace == {" ", "\t"}

UpperChar(c) == CASE c = "a" -> "A" [] c = "b" -> "B" [] OTHER -> c

\* str.upper()
Upper(s) == [i \in 1..Len(s) |-> UpperChar(s[i])]

RECURSIVE LStrip(_, _)
\* str.lstrip(chars)
LStrip(s, chars) ==
    IF Len(s) > 0 /\ Head(s) \in chars THEN LStrip(Tail(s), chars) ELSE s

RECURSIVE RStrip(_, _)
RStrip(s, chars) ==
    IF Len(s) > 0 /\ s[Len(s)] \in chars
    THEN RStrip(SubSeq(s, 1, Len(s) - 1), chars) ELSE s

\* str.strip(): no argument strips whitespace at both ends
Strip(s) == RStrip(LStrip(s, Whitespace), Whitespace)

----------------------------------------------------------------------------
(* sec_connector.models                                                     *)

Company(ticker, cik, name) == [ticker |-> ticker, cik |-> cik, name |-> name]

----------------------------------------------------------------------------
(* SECClient.lookup_company                                                 *)

\* The outcome of a call: an exception of a type with the fixed part of its
\* message, or a returned value.
Raise(type, msg) == [ok |-> FALSE, type |-> type, msg |-> msg, value |-> <<>>]
Return(v) == [ok |-> TRUE, type |-> "", msg |-> "", value |-> <<v>>]

NormalizeTickerNoUpper(ticker) == Strip(ticker)

\* ticker.upper().strip()
NormalizeTicker(ticker) == Strip(Upper(ticker))

PadCikNone(cik) == cik

\* cik.zfill(10)
PadCik(cik) == ZFill(cik, CikWidth)

lookup_company_unguarded(comp, ticker) ==
    LET ticker_upper == NormalizeTicker(ticker) IN
    IF ticker_upper \notin DOMAIN comp
    THEN Raise("ValueError", "Company with ticker not found")
    ELSE Return(Company(ticker_upper, PadCik(comp[ticker_upper].cik),
                        comp[ticker_upper].name))

\* The f-string of the second message also quotes the ticker as given; the
\* outcome keeps the fixed part of a message.
lookup_company(comp, ticker) ==
    IF ticker = <<>> \/ Strip(ticker) = <<>>
    THEN Raise("ValueError", "Ticker cannot be empty")
    ELSE LET ticker_upper == NormalizeTicker(ticker) IN
         IF ticker_upper \notin DOMAIN comp
         THEN Raise("ValueError", "Company with ticker not found")
         ELSE Return(Company(ticker_upper, PadCik(comp[ticker_upper].cik),
                             comp[ticker_upper].name))

----------------------------------------------------------------------------
(* datetime.date and pydantic's parsing of an ISO date string               *)

\* A raw filing_date is the ISO string "YYYY-MM-DD", written <<y, m, d>>.
IsLeap(y) == (y % 4 = 0 /\ y % 100 # 0) \/ y % 400 = 0

DaysInMonth(y, m) ==
    CASE m \in {4, 6, 9, 11} -> 30
      [] m = 2 -> IF IsLeap(y) THEN 29 ELSE 28
      [] OTHER -> 31

\* date(y, m, d) exists
ValidDate(iso) ==
    /\ iso[2] \in 1..12
    /\ iso[3] \in 1..DaysInMonth(iso[1], iso[2])

\* The date a valid ISO string parses to.
ParseDate(iso) == [year |-> iso[1], month |-> iso[2], day |-> iso[3]]

\* date.__le__ : a <= b
DateLE(a, b) ==
    \/ a.year < b.year
    \/ a.year = b.year /\ a.month < b.month
    \/ a.year = b.year /\ a.month = b.month /\ a.day <= b.day

\* a >= b
DateGE(a, b) == DateLE(b, a)

\* The fields of Filing: all are required.
FilingFields ==
    {"cik", "company_name", "form_type", "filing_date", "accession_number"}

\* Filing(**filing_dict) succeeds: every field is there and filing_date
\* parses to a date.
FilingValid(d) ==
    /\ FilingFields \subseteq DOMAIN d
    /\ ValidDate(d.filing_date)

\* The Filing object built from a raw dict.
Filing(d) ==
    [cik |-> d.cik, company_name |-> d.company_name, form_type |-> d.form_type,
     filing_date |-> ParseDate(d.filing_date),
     accession_number |-> d.accession_number]

FilingFilter(form_types, date_from, date_to, limit) ==
    [form_types |-> form_types, date_from |-> date_from, date_to |-> date_to,
     limit |-> limit]

----------------------------------------------------------------------------
(* Python list operations                                                   *)

\* x in lst
InList(x, lst) == \E i \in 1..Len(lst) : lst[i] = x

RECURSIVE InsertDesc(_, _)
\* Inserts f after every element whose date is >= f's: with the insertion
\* order below this is the stable descending sort of list.sort(reverse=True).
InsertDesc(f, sorted) ==
    IF sorted = <<>> THEN <<f>>
    ELSE IF DateGE(Head(sorted).filing_date, f.filing_date)
         THEN <<Head(sorted)>> \o InsertDesc(f, Tail(sorted))
         ELSE <<f>> \o sorted

RECURSIVE SortDescFrom(_, _)
SortDescFrom(lst, acc) ==
    IF lst = <<>> THEN acc
    ELSE SortDescFrom(Tail(lst), InsertDesc(Head(lst), acc))

SortByDateAsc(lst) ==
    LET desc == SortDescFrom(lst, <<>>)
    IN  [i \in 1..Len(desc) |-> desc[Len(desc) + 1 - i]]

\* filings.sort(key=lambda f: f.filing_date, reverse=True)
SortByDateDesc(lst) == SortDescFrom(lst, <<>>)

Min(a, b) == IF a <= b THEN a ELSE b
Max(a, b) == IF a >= b THEN a ELSE b

SliceOneMore(lst, n) ==
    IF n >= 0 THEN SubSeq(lst, 1, Min(n + 1, Len(lst)))
    ELSE SubSeq(lst, 1, Max(Len(lst) + n, 0))

\* lst[:n] : a negative n counts from the end
SliceTo(lst, n) ==
    IF n >= 0 THEN SubSeq(lst, 1, Min(n, Len(lst)))
    ELSE SubSeq(lst, 1, Max(Len(lst) + n, 0))

----------------------------------------------------------------------------
(* SECClient.list_filings                                                   *)

MatchingUnpadded(data, cik) ==
    SelectSeq(data, LAMBDA d : d.cik = PadCik(cik))

\* the raw dicts of the CIK: filing_dict["cik"].zfill(10) == cik.zfill(10)

MatchingFilings(data, cik) ==
    SelectSeq(data, LAMBDA d : PadCik(d.cik) = PadCik(cik))

\* the Filing objects of the raw dicts that validate
RECURSIVE ToFilings(_)
ToFilings(dicts) ==
    IF dicts = <<>> THEN <<>>
    ELSE IF FilingValid(Head(dicts))
         THEN <<Filing(Head(dicts))>> \o ToFilings(Tail(dicts))
         ELSE ToFilings(Tail(dicts))

FormTypeAll(filings, filters) == filings

FormTypeFilter(filings, filters) ==
    IF filters.form_types # <<>> /\ Len(filters.form_types[1]) > 0
    THEN SelectSeq(filings, LAMBDA f : InList(f.form_type, filters.form_types[1]))
    ELSE filings

DateFromExclusive(filings, filters) ==
    IF filters.date_from # <<>>
    THEN SelectSeq(filings, LAMBDA f :
             ~DateLE(f.filing_date, filters.date_from[1]))
    ELSE filings

DateFromFilter(filings, filters) ==
    IF filters.date_from # <<>>
    THEN SelectSeq(filings, LAMBDA f : DateGE(f.filing_date, filters.date_from[1]))
    ELSE filings

DateToFilter(filings, filters) ==
    IF filters.date_to # <<>>
    THEN SelectSeq(filings, LAMBDA f : DateLE(f.filing_date, filters.date_to[1]))
    ELSE filings

list_filings(data, cik, filters) ==
    LET matching_filings == MatchingFilings(data, cik)
        filings0 == ToFilings(matching_filings)
        filings1 == FormTypeFilter(filings0, filters)
        filings2 == DateFromFilter(filings1, filters)
        filings3 == DateToFilter(filings2, filters)
        sorted == SortByDateDesc(filings3)
    IN  SliceTo(sorted, filters.limit)

filings_data_narrowed(data, cik, filters) ==
    SelectSeq(data, LAMBDA d :
        "cik" \in DOMAIN d /\ PadCik(d.cik) = PadCik(cik))

\* self._filings_data after the call: the comprehensions build new lists
\* and filings.sort sorts the new list, so the stored list is as before.
filings_data_after(data, cik, filters) == data

\* The outcome of the call: filing_dict["cik"] of the first comprehension
\* raises KeyError on a stored dict without that key, whoever owns it;
\* otherwise the call returns the list above.
list_filings_outcome(data, cik, filters) ==
    IF \E i \in 1..Len(data) : "cik" \notin DOMAIN data[i]
    THEN Raise("KeyError", "cik")
    ELSE Return(list_filings(data, cik, filters))

----------------------------------------------------------------------------
(* str and pathlib.Path operations of download_filing                       *)

DotTxt == <<".", "t", "x", "t">>
DotHtm == <<".", "h", "t", "m">>

\* s.endswith(suffix)
EndsWith(s, suffix) ==
    /\ Len(s) >= Len(suffix)
    /\ SubSeq(s, Len(s) - Len(suffix) + 1, Len(s)) = suffix

RECURSIVE Replace(_, _, _)
\* s.replace(old, new): every non-overlapping occurrence, left to right
Replace(s, old, new) ==
    IF Len(s) < Len(old) THEN s
    ELSE IF SubSeq(s, 1, Len(old)) = old
         THEN new \o Replace(SubSeq(s, Len(old) + 1, Len(s)), old, new)
         ELSE <<Head(s)>> \o Replace(Tail(s), old, new)

\* The index of the last "." of a name, 0 when there is none.
LastDot(name) ==
    LET dots == {i \in 1..Len(name) : name[i] = "."}
    IN  IF dots = {} THEN 0 ELSE CHOOSE i \in dots : \A j \in dots : j <= i

\* PurePath.suffix: from the last dot, unless that dot leads or ends the name
Suffix(name) ==
    LET i == LastDot(name)
    IN  IF 1 < i /\ i < Len(name) THEN SubSeq(name, i, Len(name)) ELSE <<>>

\* A path: the directory components and the file name.
Path(dir, name) == [dir |-> dir, name |-> name]

\* path.with_suffix(suffix)
WithSuffix(path, suffix) ==
    Path(path.dir,
         SubSeq(path.name, 1, Len(path.name) - Len(Suffix(path.name))) \o suffix)

\* path.parent.mkdir(parents=True, exist_ok=True): the directories after it
MkdirParents(dirs, path) ==
    dirs \cup {SubSeq(path.dir, 1, k) : k \in 1..Len(path.dir)}

\* path.write_bytes(content): the files after it
WriteBytes(files, path, content) ==
    [p \in DOMAIN files \cup {path} |-> IF p = path THEN content ELSE files[p]]

----------------------------------------------------------------------------
(* SECClient.download_filing                                                *)

\* What a GET ends with: a 2xx response, a response raise_for_status refuses
\* (httpx.HTTPStatusError), or no response (httpx.RequestError).
RespOk(content) == [kind |-> "ok", status |-> 200, content |-> content]
RespStatus(status) == [kind |-> "status", status |-> status, content |-> ""]
RespTransport == [kind |-> "transport", status |-> 0, content |-> ""]

\* filing.cik.zfill(10).lstrip("0") or "0"
UrlCik(cik) ==
    LET stripped == LStrip(PadCik(cik), {"0"})
    IN  IF stripped = <<>> THEN <<"0">> ELSE stripped

\* f"{base_url}/{filename}"
Url(filing, filename) ==
    [cik |-> UrlCik(filing.cik),
     accession |-> Replace(filing.accession_number, <<"-">>, <<>>),
     filename |-> filename]

TriesFallbackAnyFailure(resp1, filename) ==
    resp1.kind # "ok" /\ EndsWith(filename, DotTxt)

\* The except clause of the primary GET that retries with the .htm name:
\* an HTTPStatusError, and filename.endswith(".txt").
TriesFallback(resp1, filename) ==
    resp1.kind = "status" /\ EndsWith(filename, DotTxt)

\* The call's effects: the GETs issued in order, the outcome, and the file
\* system it leaves.
Effects(gets, outcome, dirs, files) ==
    [gets |-> gets, outcome |-> outcome, dirs |-> dirs, files |-> files]

\* download_filing(filing, output_dir, filename) on the file system
\* (dirs, files), where the primary GET ends with resp1 and the fallback
\* GET, if issued, with resp2.
download_filing(filing, output_dir, filename_arg, dirs, files, resp1, resp2) ==
    LET filename == IF filename_arg = <<>>
                    THEN filing.accession_number \o DotTxt
                    ELSE filename_arg[1]
        output_path == IF output_dir = <<>> THEN Path(<<>>, filename)
                       ELSE Path(output_dir[1], filename)
        dirs1 == MkdirParents(dirs, output_path)
        get1 == Url(filing, filename)
        alt_filename == Replace(filename, DotTxt, DotHtm)
        get2 == Url(filing, alt_filename)
        alt_path == WithSuffix(output_path, DotHtm)
    IN  CASE resp1.kind = "ok" ->
               Effects(<<get1>>, Return(output_path), dirs1,
                       WriteBytes(files, output_path, resp1.content))
          [] resp1.kind # "ok" /\ ~TriesFallback(resp1, filename) ->
               Effects(<<get1>>, Raise("ValueError", "Failed to download filing"),
                       dirs1, files)
          [] resp1.kind # "ok" /\ TriesFallback(resp1, filename) ->
               CASE resp2.kind = "ok" ->
                      Effects(<<get1, get2>>, Return(alt_path), dirs1,
                              WriteBytes(files, alt_path, resp2.content))
                 [] resp2.kind = "status" ->
                      Effects(<<get1, get2>>,
                              Raise("ValueError", "Failed to download filing"),
                              dirs1, files)
                 [] resp2.kind = "transport" ->
                      \* raised inside the HTTPStatusError handler: the
                      \* sibling "except httpx.RequestError" does not apply
                      Effects(<<get1, get2>>, Raise("httpx.RequestError", ""),
                              dirs1, files)

----------------------------------------------------------------------------
(* The data the client is constructed with, and the arguments of its calls  *)

Chars == {"a", "A", " "}

\* every string over chars of length at most n
Strings(chars, n) == UNION {[1..k -> chars] : k \in 0..n}

Tickers == Strings(Chars, MaxTickerLen)

\* keys of the directory: upper case, lower case, and the empty string
TickerKeys == {<<"A">>, <<"A", "A">>, <<"a", "a">>, <<>>}

\* raw CIKs: shorter than, as long as and longer than the padded width, and
\* one with a sign
RawCiks ==
    {Zeros(k) \o <<"7">> : k \in {0, 9, 10}} \cup {<<"+", "5">>, <<>>}

CompanyName(cik) == IF Len(cik) <= 4 THEN "Apple Inc." ELSE "Test Corp"

CompanyInfos == {[cik |-> c, name |-> CompanyName(c)] : c \in RawCiks}

Directories ==
    UNION {[keys -> CompanyInfos] :
           keys \in {k \in SUBSET TickerKeys : Cardinality(k) <= MaxCompanies}}

SampleCompanies ==
    (<<"A">> :> [cik |-> <<"7">>, name |-> "Apple Inc."])
    @@ (<<"A", "A">> :> [cik |-> <<"8">>, name |-> "Test Corp"])

RawFiling(cik, form_type, iso, accession) ==
    [cik |-> cik, company_name |-> "Apple Inc.", form_type |-> form_type,
     filing_date |-> iso, accession_number |-> accession]

\* stored records: padded and unpadded CIKs of one owner, another owner,
\* equal dates, and a date that is no calendar date
RawFilings ==
    { RawFiling(<<"7">>, "10-K", <<2023, 11, 3>>, <<"1", "-", "1">>),
      RawFiling(Zeros(9) \o <<"7">>, "10-Q", <<2023, 8, 4>>, <<"1", "-", "2">>),
      RawFiling(<<"7">>, "10-K", <<2022, 10, 28>>, <<"1", "-", "3">>),
      RawFiling(<<"8">>, "10-K", <<2023, 11, 3>>, <<"2", "-", "1">>),
      RawFiling(<<"7">>, "10-Q", <<2023, 2, 30>>, <<"1", "-", "4">>),
      RawFiling(Zeros(9) \o <<"7">>, "8-K", <<2023, 11, 3>>, <<"1", "-", "5">>) }

Datasets == UNION {[1..k -> RawFilings] : k \in 0..MaxFilings}

SampleFilings ==
    << RawFiling(<<"7">>, "10-K", <<2023, 11, 3>>, <<"1", "-", "1">>),
       RawFiling(<<"7">>, "10-Q", <<2023, 8, 4>>, <<"1", "-", "2">>) >>

\* stored records that fail Filing validation (no calendar date, no
\* form_type, no cik), next to a valid record of the owner and one of
\* another owner
MalformedFilings ==
    { RawFiling(<<"7">>, "10-K", <<2023, 11, 3>>, <<"1", "-", "1">>),
      RawFiling(<<"8">>, "10-K", <<2023, 11, 3>>, <<"2", "-", "1">>),
      RawFiling(<<"7">>, "10-Q", <<2023, 2, 30>>, <<"1", "-", "4">>),
      [cik |-> <<"7">>, company_name |-> "Apple Inc.",
       filing_date |-> <<2023, 8, 4>>, accession_number |-> <<"1", "-", "6">>],
      [company_name |-> "Apple Inc.", form_type |-> "10-K",
       filing_date |-> <<2023, 8, 4>>, accession_number |-> <<"1", "-", "7">>] }

MalformedDatasets == UNION {[1..k -> MalformedFilings] : k \in 0..MaxFilings}

QueryCiks == {<<"7">>, Zeros(9) \o <<"7">>}

Date(y, m, d) == [year |-> y, month |-> m, day |-> d]

FormTypeChoices == {<<>>, << <<>> >>, << <<"10-K">> >>, << <<"10-K", "8-K">> >>}
DateFromChoices == {<<>>, <<Date(2023, 1, 1)>>, <<Date(2023, 11, 3)>>}
DateToChoices == {<<>>, <<Date(2023, 11, 3)>>, <<Date(2022, 12, 31)>>}
\* limit: int, negative values included
Limits == -2..MaxLimit

Filters ==
    {FilingFilter(ft, df, dt, l) :
        ft \in FormTypeChoices, df \in DateFromChoices, dt \in DateToChoices,
        l \in Limits}

DownloadFilings ==
    { Filing(RawFiling(<<"7">>, "10-K", <<2023, 11, 3>>, <<"1", "-", "1">>)),
      Filing(RawFiling(<<"0", "0">>, "10-Q", <<2023, 8, 4>>, <<"2", "-", "2">>)) }

OutputDirs == {<<>>, << <<"new_dir", "subdir">> >>}

FilenameArgs ==
    { <<>>,
      << <<"c", ".", "t", "x", "t">> >>,
      << <<"c", ".", "h", "t", "m">> >>,
      << <<"c", ".", "t", "x", "t", ".", "t", "x", "t">> >>,
      << <<".", "t", "x", "t">> >> }

Responses == {RespOk("content"), RespStatus(404), RespTransport}

----------------------------------------------------------------------------
(* The calls                                                                *)

NoFileSystem == fs_dirs = {} /\ fs_files = <<>> /\ ncalls = 0

\* lookup_company and list_filings leave the client as it is (UNCHANGED
\* below), so a behaviour follows one call of them from each client.
LookupCompany ==
    \E ticker \in Tickers :
        /\ lookup_ret = <<>>
        /\ lookup_ret' = <<[ticker |-> ticker,
                            outcome |-> lookup_company(companies, ticker)]>>
        /\ UNCHANGED <<companies, filings_data, list_ret, dl_ret, fs_dirs,
                       fs_files, ncalls, calls>>

ListFilings ==
    \E cik \in QueryCiks, filters \in Filters :
        /\ list_ret = <<>>
        /\ list_ret' = <<[cik |-> cik, filters |-> filters,
                          outcome |-> list_filings_outcome(filings_data, cik,
                                                           filters)]>>
        /\ filings_data' = filings_data_after(filings_data, cik, filters)
        /\ UNCHANGED <<companies, lookup_ret, dl_ret, fs_dirs, fs_files,
                       ncalls, calls>>

DownloadFiling ==
    \E filing \in DownloadFilings, output_dir \in OutputDirs,
       filename \in FilenameArgs, resp1 \in Responses, resp2 \in Responses :
        LET eff == download_filing(filing, output_dir, filename, fs_dirs,
                                   fs_files, resp1, resp2)
        IN  /\ ncalls < MaxCalls
            /\ ncalls' = ncalls + 1
            /\ fs_dirs' = eff.dirs
            /\ fs_files' = eff.files
            /\ dl_ret' = <<[filing |-> filing, output_dir |-> output_dir,
                            filename |-> filename,
                            responses |-> SubSeq(<<resp1, resp2>>, 1, Len(eff.gets)),
                            gets |-> eff.gets, outcome |-> eff.outcome,
                            dirs_before |-> fs_dirs, files_before |-> fs_files]>>
            /\ UNCHANGED <<companies, filings_data, lookup_ret, list_ret, calls>>

NoCalls == lookup_ret = <<>> /\ list_ret = <<>> /\ dl_ret = <<>> /\ calls = <<>>

\* Directory: lookup_company over every directory
InitDirectory ==
    /\ companies \in Directories
    /\ filings_data = SampleFilings
    /\ NoCalls /\ NoFileSystem

SpecDirectory == InitDirectory /\ [][LookupCompany]_vars

\* Filing repository: list_filings over every dataset
InitRepository ==
    /\ companies = SampleCompanies
    /\ filings_data \in Datasets
    /\ NoCalls /\ NoFileSystem

SpecRepository == InitRepository /\ [][ListFilings]_vars

\* Filing repository holding records that fail validation
InitMalformed ==
    /\ companies = SampleCompanies
    /\ filings_data \in MalformedDatasets
    /\ NoCalls /\ NoFileSystem

SpecMalformed == InitMalformed /\ [][ListFilings]_vars

\* Document fetcher: download_filing calls one after the other
InitFetcher ==
    /\ companies = SampleCompanies
    /\ filings_data = SampleFilings
    /\ NoCalls /\ NoFileSystem

SpecFetcher == InitFetcher /\ [][DownloadFiling]_vars

\* Call sequences: lookup_company and list_filings calls in any order on
\* one client, successful and failing, repeated or not.
SeqTickers == {<<"a">>, <<"B">>, <<>>}

SeqQueries ==
    { [cik |-> <<"7">>, filters |-> FilingFilter(<<>>, <<>>, <<>>, MaxLimit)],
      [cik |-> Zeros(9) \o <<"7">>,
       filters |-> FilingFilter(<< <<"10-K">> >>, <<>>, <<>>, 1)] }

SeqDatasets == {d \in MalformedDatasets : Len(d) <= 2}

Call(op, args, outcome) == [op |-> op, args |-> args, outcome |-> outcome]

SeqLookup ==
    \E ticker \in SeqTickers :
        LET outcome == lookup_company(companies, ticker)
        IN  /\ Len(calls) <= MaxCalls
            /\ lookup_ret' = <<[ticker |-> ticker, outcome |-> outcome]>>
            /\ calls' = Append(calls, Call("lookup_company", ticker, outcome))
            /\ UNCHANGED <<companies, filings_data, list_ret, dl_ret, fs_dirs,
                           fs_files, ncalls>>

SeqList ==
    \E q \in SeqQueries :
        LET outcome == list_filings_outcome(filings_data, q.cik, q.filters)
        IN  /\ Len(calls) <= MaxCalls
            /\ list_ret' = <<[cik |-> q.cik, filters |-> q.filters,
                              outcome |-> outcome]>>
            /\ calls' = Append(calls, Call("list_filings", q, outcome))
            /\ filings_data' = filings_data_after(filings_data, q.cik, q.filters)
            /\ UNCHANGED <<companies, lookup_ret, dl_ret, fs_dirs, fs_files,
                           ncalls>>

InitQueries ==
    /\ companies = SampleCompanies
    /\ filings_data \in SeqDatasets
    /\ NoCalls /\ NoFileSystem

NextQueries == SeqLookup \/ SeqList

SpecQueries == InitQueries /\ [][NextQueries]_vars

----------------------------------------------------------------------------
(* Claims about list_filings (SpecRepository)                               *)

\* a list_filings call was made and returned a list
Listed == list_ret # <<>> /\ list_ret[1].outcome.ok
LCall ==
    [cik |-> list_ret[1].cik, filters |-> list_ret[1].filters,
     result |-> list_ret[1].outcome.value[1]]

\* the list the call would return were it given no limit
Unlimited ==
    list_filings(filings_data, LCall.cik,
                 [LCall.filters EXCEPT !.limit = Len(filings_data)])

\* C1 as stated: whatever integer the limit is, the returned list is no
\* longer than filters.limit.
C1_LengthWithinAnyLimit ==
    Listed => Len(LCall.result) <= LCall.filters.limit

\* C1 as amended: for every limit >= 0 the returned list is no longer than
\* filters.limit, and a limit of 0 returns the empty list.
C1_LengthWithinLimit ==
    Listed /\ LCall.filters.limit >= 0 =>
        /\ Len(LCall.result) <= LCall.filters.limit
        /\ LCall.filters.limit = 0 => LCall.result = <<>>

\* C1 witness: a call whose limit cut the list short.
C1_Witness ==
    /\ Listed
    /\ LCall.filters.limit >= 1
    /\ Len(LCall.result) = LCall.filters.limit
    /\ Len(Unlimited) > LCall.filters.limit

\* C8: the returned list is sorted non-increasing by filing_date: of two
\* adjacent records the first is dated no earlier than the second.
C8_SortedNewestFirst ==
    Listed =>
        \A i \in 1..(Len(LCall.result) - 1) :
            DateGE(LCall.result[i].filing_date, LCall.result[i + 1].filing_date)

\* C8 witness: records stored oldest first are returned newest first.
C8_Witness ==
    /\ Listed
    /\ Len(LCall.result) >= 2
    /\ LCall.result[1].filing_date # LCall.result[2].filing_date
    /\ \E i, j \in 1..Len(filings_data) :
          /\ i < j
          /\ FilingValid(filings_data[i]) /\ FilingValid(filings_data[j])
          /\ Filing(filings_data[i]) = LCall.result[2]
          /\ Filing(filings_data[j]) = LCall.result[1]

\* stored record j belongs to the queried owner: both identifiers padded to
\* 10 digits are equal
SameOwner(j) ==
    /\ "cik" \in DOMAIN filings_data[j]
    /\ PadCik(filings_data[j].cik) = PadCik(list_ret[1].cik)

\* C9: every returned record is a stored record whose owner identifier,
\* zero-padded to 10 digits, equals the queried identifier zero-padded to 10
\* digits; and when neither a criterion nor the limit removes records, every
\* valid stored record of that owner is returned, padded or not.
C9_OnlyTheOwnersRecords ==
    Listed =>
        /\ \A i \in 1..Len(LCall.result) :
              \E j \in 1..Len(filings_data) :
                  /\ SameOwner(j)
                  /\ FilingValid(filings_data[j])
                  /\ Filing(filings_data[j]) = LCall.result[i]
        /\ ( /\ LCall.filters.form_types = <<>>
             /\ LCall.filters.date_from = <<>>
             /\ LCall.filters.date_to = <<>>
             /\ LCall.filters.limit >= Len(filings_data) )
           => \A j \in 1..Len(filings_data) :
                  SameOwner(j) /\ FilingValid(filings_data[j])
                  => InList(Filing(filings_data[j]), LCall.result)

\* C9 witness: a padded query returns a record stored unpadded, while a
\* record of another owner is stored too.
C9_Witness ==
    /\ Listed
    /\ Len(LCall.cik) = CikWidth
    /\ \E i \in 1..Len(LCall.result) : Len(LCall.result[i].cik) < CikWidth
    /\ \E j \in 1..Len(filings_data) : ~SameOwner(j)

\* C10: every returned record meets every criterion that is set: its
\* form_type is in a non-empty form_types, its filing_date is on or after
\* date_from and on or before date_to.
C10_MeetsEveryCriterion ==
    Listed =>
        \A i \in 1..Len(LCall.result) :
            LET f == LCall.result[i]
                c == LCall.filters
            IN  /\ (c.form_types # <<>> /\ c.form_types[1] # <<>>)
                       => \E k \in 1..Len(c.form_types[1]) :
                              c.form_types[1][k] = f.form_type
                /\ c.date_from # <<>> => DateLE(c.date_from[1], f.filing_date)
                /\ c.date_to # <<>> => DateLE(f.filing_date, c.date_to[1])

\* C10 witness: all three criteria are set, a record dated on both bounds
\* is returned, and records of the owner were removed by the criteria.
C10_Witness ==
    /\ Listed
    /\ LCall.filters.form_types # <<>> /\ LCall.filters.form_types[1] # <<>>
    /\ LCall.filters.date_from # <<>> /\ LCall.filters.date_to # <<>>
    /\ LCall.filters.limit >= 2
    /\ Len(LCall.result) = 1
    /\ LCall.result[1].filing_date = LCall.filters.date_from[1]
    /\ LCall.result[1].filing_date = LCall.filters.date_to[1]
    /\ \E j \in 1..Len(filings_data) :
          /\ SameOwner(j) /\ FilingValid(filings_data[j])
          /\ ~InList(filings_data[j].form_type, LCall.filters.form_types[1])

\* the Filing f meets every criterion of c that is set
Meets(f, c) ==
    /\ (c.form_types # <<>> /\ c.form_types[1] # <<>>)
           => \E k \in 1..Len(c.form_types[1]) : c.form_types[1][k] = f.form_type
    /\ c.date_from # <<>> => DateLE(c.date_from[1], f.filing_date)
    /\ c.date_to # <<>> => DateLE(f.filing_date, c.date_to[1])

\* the positions of the valid stored records of the queried owner that meet
\* every set criterion
MatchingPositions ==
    {j \in 1..Len(filings_data) :
        /\ SameOwner(j)
        /\ FilingValid(filings_data[j])
        /\ Meets(Filing(filings_data[j]), LCall.filters)}

\* C11: for a limit >= 0 the call returns exactly min(limit, n) records, n
\* the number of valid stored records of the owner that meet every set
\* criterion, and they are the newest: every matching stored record dated
\* strictly later than a returned record is returned too.
C11_NewestMinLimitN ==
    Listed /\ LCall.filters.limit >= 0 =>
        LET n == Cardinality(MatchingPositions)
        IN  /\ Len(LCall.result) =
                  (IF LCall.filters.limit <= n THEN LCall.filters.limit ELSE n)
            /\ \A j \in MatchingPositions :
                  \A i \in 1..Len(LCall.result) :
                      ~DateLE(Filing(filings_data[j]).filing_date,
                              LCall.result[i].filing_date)
                      => InList(Filing(filings_data[j]), LCall.result)
            /\ LCall.filters.limit >= n =>
                  \A j \in MatchingPositions :
                      InList(Filing(filings_data[j]), LCall.result)

\* C11 witness: more records match than the limit allows, a criterion is
\* set, and an older matching record is left out.
C11_Witness ==
    /\ Listed
    /\ LCall.filters.limit >= 1
    /\ LCall.filters.date_from # <<>>
    /\ Cardinality(MatchingPositions) > LCall.filters.limit
    /\ Len(LCall.result) = LCall.filters.limit
    /\ \E j \in MatchingPositions :
          ~InList(Filing(filings_data[j]), LCall.result)

\* the call returned exactly the valid stored records of the owner: none
\* that fails validation, none of another owner, none missing
ReturnsTheValidRecords ==
    /\ list_ret[1].outcome.ok
    /\ \A i \in 1..Len(LCall.result) :
          \E j \in 1..Len(filings_data) :
              /\ SameOwner(j) /\ FilingValid(filings_data[j])
              /\ Filing(filings_data[j]) = LCall.result[i]
    /\ ( /\ LCall.filters.form_types = <<>>
         /\ LCall.filters.date_from = <<>>
         /\ LCall.filters.date_to = <<>>
         /\ LCall.filters.limit >= Len(filings_data) )
       => \A j \in 1..Len(filings_data) :
              SameOwner(j) /\ FilingValid(filings_data[j])
              => InList(Filing(filings_data[j]), LCall.result)
    /\ (\A j \in 1..Len(filings_data) : ~SameOwner(j)) => LCall.result = <<>>

\* C12: list_filings never fails: a stored record that fails Filing
\* validation is left out of the result, the valid records of the owner are
\* still returned, and an identifier no record matches gives the empty list.
C12_NeverFails ==
    list_ret # <<>> => ReturnsTheValidRecords

\* What holds of the code: C12 for datasets whose records all have a cik.
C12_NeverFailsWithCikKeys ==
    ( /\ list_ret # <<>>
      /\ \A j \in 1..Len(filings_data) : "cik" \in DOMAIN filings_data[j] )
    => ReturnsTheValidRecords

\* a record without a calendar date and one without form_type are left
\* out, the valid record of the owner is returned
C12_SkipsMalformed ==
    /\ Listed
    /\ Len(filings_data) = 3
    /\ \E j \in 1..3 : ~ValidDate(filings_data[j].filing_date)
    /\ \E j \in 1..3 : "form_type" \notin DOMAIN filings_data[j]
    /\ Len(LCall.result) = 1

----------------------------------------------------------------------------
(* Claims about lookup_company (SpecDirectory)                              *)

Looked == lookup_ret # <<>>
KCall == lookup_ret[1]
Found == Looked /\ KCall.outcome.ok
FoundCompany == KCall.outcome.value[1]

InvalidInput == Raise("ValueError", "Ticker cannot be empty")
NotFound == Raise("ValueError", "Company with ticker not found")

\* C5 as stated: the cik of every returned Company has exactly 10
\* characters, whatever the length of the stored raw identifier.
C5_CikAlwaysTenChars ==
    Found => Len(FoundCompany.cik) = 10

\* s is raw with k zeros put in front of it, behind a leading sign if any
ZeroPadded(s, raw, k) ==
    \/ s = Zeros(k) \o raw /\ (raw = <<>> \/ Head(raw) \notin {"+", "-"})
    \/ /\ raw # <<>> /\ Head(raw) \in {"+", "-"}
       /\ s = <<Head(raw)>> \o Zeros(k) \o Tail(raw)

\* C5 as amended: for a stored raw identifier of at most 10 characters the
\* returned cik has exactly 10 characters, the raw identifier with zeros put
\* in front (behind a leading sign); a longer raw identifier is returned as
\* stored.
C5_CikPaddedToTen ==
    Found =>
        LET raw == companies[FoundCompany.ticker].cik
            cik == FoundCompany.cik
        IN  /\ Len(raw) <= 10 =>
                  Len(cik) = 10 /\ ZeroPadded(cik, raw, 10 - Len(raw))
            /\ Len(raw) > 10 => cik = raw

\* C5 witness: a company stored with a short raw identifier is returned.
C5_Witness ==
    /\ Found
    /\ Len(companies[FoundCompany.ticker].cik) = 1
    /\ Len(FoundCompany.cik) = 10

\* every character of the string is whitespace (so is the empty string)
Blank(t) == \A i \in 1..Len(t) : t[i] \in Whitespace

\* C6: lookup_company fails with "Ticker cannot be empty" exactly when the
\* ticker is empty or whitespace only, also when the directory has a key for
\* the stripped ticker; otherwise it fails with "not found" exactly when the
\* ticker, uppercased and stripped, is no key of the directory; otherwise it
\* succeeds.
C6_OneOutcomePerTicker ==
    Looked =>
        LET t == KCall.ticker
            key == Strip(Upper(t))
        IN  /\ Blank(t) => KCall.outcome = InvalidInput
            /\ ~Blank(t) /\ key \notin DOMAIN companies
                   => KCall.outcome = NotFound
            /\ ~Blank(t) /\ key \in DOMAIN companies
                   => KCall.outcome.ok /\ FoundCompany.ticker = key

\* C6 witness: a whitespace-only ticker fails as empty although the
\* directory has an entry under the empty string.
C6_Witness ==
    /\ Looked
    /\ KCall.ticker # <<>> /\ Blank(KCall.ticker)
    /\ <<>> \in DOMAIN companies
    /\ KCall.outcome = InvalidInput

LowerChar(c) == CASE c = "A" -> "a" [] c = "B" -> "b" [] OTHER -> c

\* the string without its leading and trailing whitespace, in lower case
Folded(t) ==
    LET inner == {i \in 1..Len(t) : t[i] \notin Whitespace}
        lo == CHOOSE i \in inner : \A j \in inner : i <= j
        hi == CHOOSE i \in inner : \A j \in inner : j <= i
    IN  IF inner = {} THEN <<>>
        ELSE [i \in 1..(hi - lo + 1) |-> LowerChar(t[lo + i - 1])]

\* two tickers differ only in letter case or surrounding whitespace
SameTicker(t1, t2) == Folded(t1) = Folded(t2)

\* C7: tickers that differ only in letter case or leading/trailing
\* whitespace have the same lookup_company outcome, a returned Company
\* carries the uppercase, trimmed ticker, and looking that ticker up returns
\* the same Company.
C7_CaseInsensitiveIdempotent ==
    Looked =>
        /\ \A t2 \in Tickers :
              SameTicker(KCall.ticker, t2)
              => lookup_company(companies, t2) = KCall.outcome
        /\ KCall.outcome.ok =>
              /\ SameTicker(FoundCompany.ticker, KCall.ticker)
              /\ \A i \in 1..Len(FoundCompany.ticker) :
                    FoundCompany.ticker[i] \notin {"a", "b"}
              /\ FoundCompany.ticker # <<>>
                    => /\ Head(FoundCompany.ticker) \notin Whitespace
                       /\ FoundCompany.ticker[Len(FoundCompany.ticker)]
                              \notin Whitespace
              /\ lookup_company(companies, FoundCompany.ticker) = KCall.outcome

\* C7 witness: a lower-case ticker with surrounding whitespace finds the
\* company stored under the upper-case key.
C7_Witness ==
    /\ Found
    /\ KCall.ticker = <<" ", "a", " ">>
    /\ FoundCompany.ticker = <<"A">>

----------------------------------------------------------------------------
(* Claims about download_filing (SpecFetcher)                               *)

Downloaded == dl_ret # <<>>
DCall == dl_ret[1]

DownloadFailed == Raise("ValueError", "Failed to download filing")

\* C2: a download_filing call that does not succeed fails with the
\* ValueError "Failed to download filing", whichever GET failed and however;
\* no other error type reaches the caller.
C2_FailureIsDownloadFailed ==
    Downloaded /\ ~DCall.outcome.ok => DCall.outcome = DownloadFailed

\* the name the primary GET asks for ends in ".txt"
AsksForTxt ==
    LET name == DCall.gets[1].filename
    IN  /\ Len(name) >= 4
        /\ <<name[Len(name) - 3], name[Len(name) - 2], name[Len(name) - 1],
             name[Len(name)]>> = <<".", "t", "x", "t">>

\* C3: a call issues one primary GET, and a second GET if and only if the
\* primary GET ended with a non-2xx status and the file name asked for ends
\* in ".txt"; never a second GET after a transport error or for another
\* name, and never a third GET.
C3_GetSequence ==
    Downloaded =>
        /\ Len(DCall.gets) \in {1, 2}
        /\ Len(DCall.responses) = Len(DCall.gets)
        /\ Len(DCall.gets) = 2
               <=> (DCall.responses[1].kind = "status" /\ AsksForTxt)
        /\ (Len(DCall.gets) = 2 /\ DCall.responses[2].kind # "ok")
               => ~DCall.outcome.ok

\* C3 witness: the primary GET of a ".txt" name and the fallback GET both
\* end with a non-2xx status, and the call fails after two GETs.
C3_Witness ==
    /\ Downloaded
    /\ Len(DCall.gets) = 2
    /\ DCall.responses[1].kind = "status"
    /\ DCall.responses[2].kind = "status"
    /\ ~DCall.outcome.ok

\* C4: a call that fails leaves the file system as it was before the call:
\* no directory created, no file written.
C4_FailureLeavesFileSystem ==
    Downloaded /\ ~DCall.outcome.ok =>
        /\ fs_dirs = DCall.dirs_before
        /\ fs_files = DCall.files_before

\* the name with its trailing ".txt" changed to ".htm"
TrailingTxtToHtm(name) ==
    SubSeq(name, 1, Len(name) - 4) \o <<".", "h", "t", "m">>

\* C13: a call that succeeds returns the path the body of the successful
\* GET was written to, and writes that one file only; when it succeeds by
\* the fallback, the fallback GET asks, under the same base URL, for the
\* original name with only its trailing ".txt" changed to ".htm", and the
\* stored file has that name.
C13_ReturnsTheWrittenPath ==
    Downloaded /\ DCall.outcome.ok =>
        LET path == DCall.outcome.value[1]
            body == DCall.responses[Len(DCall.responses)].content
        IN  /\ path \in DOMAIN fs_files
            /\ fs_files[path] = body
            /\ \A p \in DOMAIN DCall.files_before : p \in DOMAIN fs_files
            /\ \A p \in DOMAIN fs_files \ {path} :
                  /\ p \in DOMAIN DCall.files_before
                  /\ fs_files[p] = DCall.files_before[p]
            /\ Len(DCall.gets) = 2 =>
                  /\ DCall.gets[2].cik = DCall.gets[1].cik
                  /\ DCall.gets[2].accession = DCall.gets[1].accession
                  /\ DCall.gets[2].filename
                         = TrailingTxtToHtm(DCall.gets[1].filename)
                  /\ path.name = DCall.gets[2].filename

----------------------------------------------------------------------------
(* Claims about call sequences (SpecQueries)                                *)

\* C14: no lookup_company or list_filings call, successful or failing,
\* changes the company mapping or the filings list (content and order), and
\* a call repeated anywhere in the sequence with the same arguments has the
\* same outcome.
C14_BackingDataUnchanged ==
    [][ /\ companies' = companies
        /\ filings_data' = filings_data
        /\ \A i, j \in 1..Len(calls') :
              (calls'[i].op = calls'[j].op /\ calls'[i].args = calls'[j].args)
              => calls'[i].outcome = calls'[j].outcome ]_vars

\* C14 witness: a list_filings call that returns records of a list holding
\* another owner's record too, then a failing lookup_company call, then the
\* first call again.
C14_Witness ==
    /\ Len(calls) >= 3
    /\ calls[1].op = "list_filings"
    /\ calls[1].outcome.ok /\ calls[1].outcome.value[1] # <<>>
    /\ calls[2].op = "lookup_company" /\ ~calls[2].outcome.ok
    /\ calls[3].op = "list_filings" /\ calls[3].args = calls[1].args
    /\ \E j \in 1..Len(filings_data) :
          PadCik(filings_data[j].cik) # PadCik(calls[1].args.cik)

====
